---- MODULE Spec2Model ----
(***************************************************************************)
(* Recurring-invoice generation of the freelancer expense tracker:         *)
(* client/src/services/recurringInvoices.ts.                               *)
(*                                                                         *)
(* Calendar dates travel as 'yyyy-MM-dd' strings; a string is modelled as  *)
(* the integer yyyymmdd (its digits without the dashes), so that the SQL   *)
(* comparison of two dates is the comparison of the two integers.  A JS    *)
(* Date at local midnight is modelled as the record of its local fields    *)
(* [y, m, d]; its epoch reading (getTime) is counted in hours, not in      *)
(* milliseconds, so that the numbers stay inside 32 bits.                  *)
(***************************************************************************)
EXTENDS Integers, Sequences, FiniteSets, TLC

----------------------------------------------------------------------------
(* Bounds of the model *)

FirstYear == 2023        \* the first year the date functions are called on
LastYear == 2024         \* the last one
EdgeDays == 2            \* days taken on each side of a month boundary
NumInvoices == 2         \* rows in the store before the first scan
MaxScans == 2            \* scans in one behaviour
MaxDayAdvances == 1      \* midnights that pass in one behaviour
MaxMs == 0               \* the largest reading of the millisecond clock
MaxMidnights == 2        \* midnights that pass while the timers run
MaxSaves == 2             \* saves of the invoice form in one behaviour
MaxFailures == 1         \* store calls that return an error in one behaviour

----------------------------------------------------------------------------
(* The calendar, as the JS Date object and date-fns compute it *)

HoursPerDay == 24

NoDate == 0

NullInterval == "null"

IsLeap(y) == (y % 4 = 0 /\ y % 100 # 0) \/ y % 400 = 0

DaysInMonth(y, m) ==
  IF m = 2 THEN (IF IsLeap(y) THEN 29 ELSE 28)
  ELSE IF m \in {4, 6, 9, 11} THEN 30 ELSE 31

(* Days from 1970-01-01 to the civil date y-m-d. *)
DaysFromCivil(y, m, d) ==
  LET yy  == IF m <= 2 THEN y - 1 ELSE y
      era == yy \div 400
      yoe == yy - era * 400
      mp  == IF m > 2 THEN m - 3 ELSE m + 9
      doy == (153 * mp + 2) \div 5 + d - 1
      doe == yoe * 365 + yoe \div 4 - yoe \div 100 + doy
  IN  era * 146097 + doe - 719468

(* Date.prototype.setDate / setFullYear with a day outside the month: the  *)
(* engine carries the overflow into the neighbouring months.               *)
RECURSIVE MakeDay(_, _, _)
MakeDay(y, m, d) ==
  IF d < 1
    THEN LET pm == IF m = 1 THEN 12 ELSE m - 1
             py == IF m = 1 THEN y - 1 ELSE y
         IN  MakeDay(py, pm, d + DaysInMonth(py, pm))
  ELSE IF d > DaysInMonth(y, m)
    THEN LET nm == IF m = 12 THEN 1 ELSE m + 1
             ny == IF m = 12 THEN y + 1 ELSE y
         IN  MakeDay(ny, nm, d - DaysInMonth(y, m))
  ELSE [y |-> y, m |-> m, d |-> d]

(* parseISO('yyyy-MM-dd'): local midnight of that day. *)
parseISO(s) == [y |-> s \div 10000, m |-> (s \div 100) % 100, d |-> s % 100]

(* format(date, 'yyyy-MM-dd'): the local fields of the Date. *)
format(D) == D.y * 10000 + D.m * 100 + D.d

(* Daylight saving of the local zone: one hour, April to October. *)
InDst(tz, D) == tz = "dst" /\ D.m >= 4 /\ D.m <= 10

(* Date.prototype.getTime of a local-midnight Date, in hours. *)
getTime(tz, D) ==
  DaysFromCivil(D.y, D.m, D.d) * HoursPerDay - (IF InDst(tz, D) THEN 1 ELSE 0)

(* Math.abs around the difference: the term taken as a length of time. *)
MathRoundAbsDays(h) ==
  (2 * (IF h < 0 THEN 0 - h ELSE h) + HoursPerDay) \div (2 * HoursPerDay)

(* Math.floor in the place of Math.round. *)
MathFloorDays(h) == h \div HoursPerDay

(* Math.round(h / 24) for an integer number of hours h: floor(x + 0.5). *)
MathRoundDays(h) == (2 * h + HoursPerDay) \div (2 * HoursPerDay)

(* date-fns addDays: date.setDate(date.getDate() + amount). *)
addDays(D, n) == MakeDay(D.y, D.m, D.d + n)

(* date-fns addWeeks: addDays(date, amount * 7). *)
addWeeks(D, n) == addDays(D, n * 7)

(* Date.prototype.setMonth in the place of addMonths: the overflowing day  *)
(* is carried into the next month.                                         *)
addMonthsNative(D, n) ==
  LET total == D.y * 12 + (D.m - 1) + n
  IN  MakeDay(total \div 12, (total % 12) + 1, D.d)

(* date-fns addMonths: the same day of the month `n` months later, or the  *)
(* last day of that month when the day does not exist there.               *)
addMonths(D, n) ==
  LET total == D.y * 12 + (D.m - 1) + n
      ty    == total \div 12
      tm    == (total % 12) + 1
      daysInMonth == DaysInMonth(ty, tm)
  IN  IF D.d >= daysInMonth
        THEN [y |-> ty, m |-> tm, d |-> daysInMonth]
        ELSE [y |-> ty, m |-> tm, d |-> D.d]

(* date-fns addYears: addMonths(date, amount * 12). *)
addYears(D, n) == addMonths(D, n * 12)

----------------------------------------------------------------------------
(* recurringInvoices.ts: the two date functions *)

(* The default branch returning the date unchanged. *)
generateNextInvoiceDateNoDefault(currentDate, interval) ==
  LET date == parseISO(currentDate)
  IN  CASE interval = "weekly"    -> format(addWeeks(date, 1))
        [] interval = "monthly"   -> format(addMonths(date, 1))
        [] interval = "quarterly" -> format(addMonths(date, 3))
        [] interval = "yearly"    -> format(addYears(date, 1))
        [] OTHER                  -> format(date)

(* The default branch stepping two weeks. *)
generateNextInvoiceDateTwoWeeks(currentDate, interval) ==
  LET date == parseISO(currentDate)
  IN  CASE interval = "weekly"    -> format(addWeeks(date, 1))
        [] interval = "monthly"   -> format(addMonths(date, 1))
        [] interval = "quarterly" -> format(addMonths(date, 3))
        [] interval = "yearly"    -> format(addYears(date, 1))
        [] OTHER                  -> format(addWeeks(date, 2))

generateNextInvoiceDate(currentDate, interval) ==
  LET date == parseISO(currentDate)
  IN  CASE interval = "weekly"    -> format(addWeeks(date, 1))
        [] interval = "monthly"   -> format(addMonths(date, 1))
        [] interval = "quarterly" -> format(addMonths(date, 3))
        [] interval = "yearly"    -> format(addYears(date, 1))
        [] OTHER                  -> format(addMonths(date, 1))

generateNextDueDate(tz, issueDate, previousDueDate, previousIssueDate) ==
  LET prevIssueDateObj == parseISO(previousIssueDate)
      prevDueDateObj   == parseISO(previousDueDate)
      daysDifference   ==
        MathRoundDays(getTime(tz, prevDueDateObj) - getTime(tz, prevIssueDateObj))
  IN  format(addDays(parseISO(issueDate), daysDifference))

----------------------------------------------------------------------------
(* State *)

VARIABLES
  tz,        \* the local time zone of the browser: "utc" or "dst"
  call,      \* the last direct call of a date function, with its result
  store,     \* the invoices table: store[id] is the row with that id
  today,     \* the local calendar date of the clock, as yyyymmdd
  nowMs,     \* the last reading of Date.now()
  ticks,     \* how many midnights have passed
  scans,     \* scans[s]: one invocation of checkAndGenerateRecurringInvoices
  hist,      \* history: the scans triggered and the store calls that
             \* returned, in order
  sched      \* the timers of startRecurringInvoiceCheck

vars == <<tz, call, store, today, nowMs, ticks, scans, hist, sched>>

Zones == {"utc", "dst"}

Years == FirstYear..LastYear

(* The interval tags a row can carry: the four known ones, one unknown     *)
(* one, and null.                                                          *)
KnownIntervals == {"weekly", "monthly", "quarterly", "yearly"}

Intervals == KnownIntervals \cup {"biweekly", NullInterval}

(* Every calendar date of the modelled years. *)
AllDates ==
  {y * 10000 + m * 100 + d : y \in Years, m \in 1..12, d \in 1..31} \ 
  {s \in {y * 10000 + m * 100 + d : y \in Years, m \in 1..12, d \in 29..31} :
     s % 100 > DaysInMonth(s \div 10000, (s \div 100) % 100)}

(* The dates within EdgeDays of a year end, of the end of February and of  *)
(* a daylight-saving switch.                                               *)
EdgeDates ==
  {s \in AllDates :
     LET D == parseISO(s)
     IN  \/ D.m \in {12, 2, 3, 10} /\ D.d > DaysInMonth(D.y, D.m) - EdgeDays
         \/ D.m \in {1, 3, 4, 11} /\ D.d <= EdgeDays}

----------------------------------------------------------------------------
(* Direct calls of the two date functions *)

NoCall == [fn |-> "none", args |-> <<>>, result |-> NoDate]

CallNextInvoiceDate ==
  /\ call = NoCall
  /\ \E d \in AllDates, i \in Intervals :
       call' = [fn |-> "generateNextInvoiceDate", args |-> <<d, i>>,
                result |-> generateNextInvoiceDate(d, i)]
  /\ UNCHANGED <<sched, tz, store, today, nowMs, ticks, scans, hist>>

CallNextDueDate ==
  /\ call = NoCall
  /\ \E a \in EdgeDates, b \in EdgeDates, c \in EdgeDates :
       call' = [fn |-> "generateNextDueDate", args |-> <<a, b, c>>,
                result |-> generateNextDueDate(tz, a, b, c)]
  /\ UNCHANGED <<sched, tz, store, today, nowMs, ticks, scans, hist>>

----------------------------------------------------------------------------
(* The invoices table *)

(* The rows in the store before the first scan, each with its own number:  *)
(* saved by the invoice form or written by another client of the store.    *)
(* A row that is not recurring carries no interval and no next date        *)
(* (handleSubmit).                                                         *)
Row(user, project, client, number, issue, due, amount, recurring, interval, next) ==
  [user_id |-> user, project_id |-> project, client_id |-> client,
   invoice_number |-> number, status |-> "sent",
   issue_date |-> issue, due_date |-> due,
   amount |-> amount, paid_amount |-> 0,
   is_recurring |-> recurring, recurring_interval |-> interval,
   next_invoice_date |-> next]

SavedRows ==
  << Row("u1", "p1", "c1", "INV-000123-001",
        20240101, 20240131, 100, TRUE, "monthly", 20240131),
    Row("u1", "p2", "c2", "ACME",
        20240315, 20240414, 250, TRUE, "quarterly", 20231115),
    Row("u2", "p3", "c3", "INV-000456-002",
        20240110, 20240105, 75, TRUE, "biweekly", 20240229),
    Row("u2", "p4", "c4", "W-7",
        20231230, 20240102, 40, TRUE, "weekly", 20240201),
    Row("u1", "p1", "c1", "Y-1",
        20240229, 20240229, 500, TRUE, "yearly", 20240215),
    Row("u2", "p6", "c6", "N-3",
        20240101, 20240131, 10, TRUE, "monthly", NoDate),
    Row("u2", "p7", "c7", "O-4",
        20240120, 20240219, 900, FALSE, NullInterval, NoDate) >>

StartDates == {20240131, 20240229}

(* The filter on next_invoice_date left out. *)
IsDueIgnoresDate(row, day) == row.is_recurring = TRUE

(* .eq in the place of .lte *)
IsDueExactly(row, day) ==
  /\ row.is_recurring = TRUE
  /\ row.next_invoice_date # NoDate
  /\ row.next_invoice_date = day

(* .lt in the place of .lte *)
IsDueStrict(row, day) ==
  /\ row.is_recurring = TRUE
  /\ row.next_invoice_date # NoDate
  /\ row.next_invoice_date < day

(* .eq('is_recurring', true).lte('next_invoice_date', today): a null date  *)
(* compares as unknown and the row is not returned.                        *)
IsDue(row, day) ==
  /\ row.is_recurring = TRUE
  /\ row.next_invoice_date # NoDate
  /\ row.next_invoice_date <= day

RECURSIVE SelectDueFrom(_, _)
SelectDueFrom(rows, day) ==
  IF rows = <<>> THEN <<>>
  ELSE (IF IsDue(Head(rows), day) THEN <<Head(rows)>> ELSE <<>>)
         \o SelectDueFrom(Tail(rows), day)

(* A row returned once for each of two periods. *)
SelectDueTwice(rows, day) == SelectDueFrom(rows, day) \o SelectDueFrom(rows, day)

(* supabase.from('invoices').select('*') with the two filters. *)
SelectDue(rows, day) == SelectDueFrom(rows, day)

(* Date.now().toString().slice(-6): the last six digits of the reading.   *)
(* nowMs counts the milliseconds from an instant of this century that is a *)
(* multiple of SuffixModulus, so a small reading stands for a number of    *)
(* thirteen digits and its suffix keeps its leading zeros.                 *)
SuffixModulus == 1000000

(* slice(-7): the last seven digits. *)
SuffixLastSeven(ms) ==
  LET str == ToString(ms % (10 * SuffixModulus))
  IN  SubSeq("0000000", 1, 7 - Len(str)) \o str

Suffix(ms) ==
  LET str == ToString(ms % SuffixModulus)
  IN  SubSeq("000000", 1, 6 - Len(str)) \o str

(* number.split('-')[0]: the text before the first '-', the whole text     *)
(* when there is none.                                                     *)
RECURSIVE BeforeFirstDash(_)
BeforeFirstDash(str) ==
  IF str = "" THEN ""
  ELSE IF SubSeq(str, 1, 1) = "-" THEN ""
  ELSE SubSeq(str, 1, 1) \o BeforeFirstDash(SubSeq(str, 2, Len(str)))

(* The suffix appended to the whole number of the template. *)
invoiceNumberKeepsAll(number, ms) == number \o "-" \o Suffix(ms)

(* `${invoice.invoice_number.split('-')[0]}-${Date.now().toString().slice(-6)}` *)
invoiceNumber(number, ms) == BeforeFirstDash(number) \o "-" \o Suffix(ms)

(* A fixed term of thirty days in the place of the template's term. *)
dueDateThirtyDays(zone, issueDate, invoice) ==
  format(addDays(parseISO(issueDate), 30))

(* const dueDate = generateNextDueDate(issueDate, invoice.due_date, invoice.issue_date) *)
dueDate(zone, issueDate, invoice) ==
  generateNextDueDate(zone, issueDate, invoice.due_date, invoice.issue_date)

(* The next date left where it was. *)
nextInvoiceDateKeepsCursor(scanToday, invoice) == invoice.next_invoice_date

(* One step from the template's own next_invoice_date instead of today. *)
nextInvoiceDateFromCursor(scanToday, invoice) ==
  generateNextInvoiceDate(invoice.next_invoice_date, invoice.recurring_interval)

(* const nextInvoiceDate = generateNextInvoiceDate(today, invoice.recurring_interval) *)
nextInvoiceDate(scanToday, invoice) ==
  generateNextInvoiceDate(scanToday, invoice.recurring_interval)

(* The template's status copied to the occurrence. *)
NewInvoiceCopiesStatus(zone, invoice, scanToday, ms) ==
  [user_id |-> invoice.user_id,
   project_id |-> invoice.project_id,
   client_id |-> invoice.client_id,
   invoice_number |-> invoiceNumber(invoice.invoice_number, ms),
   status |-> invoice.status,
   issue_date |-> scanToday,
   due_date |-> dueDate(zone, scanToday, invoice),
   amount |-> invoice.amount,
   paid_amount |-> 0,
   is_recurring |-> TRUE,
   recurring_interval |-> invoice.recurring_interval,
   next_invoice_date |-> nextInvoiceDate(scanToday, invoice)]

(* The record handed to insert() for one row of the query's result. *)
NewInvoice(zone, invoice, scanToday, ms) ==
  LET issueDate == scanToday
  IN  [user_id |-> invoice.user_id,
       project_id |-> invoice.project_id,
       client_id |-> invoice.client_id,
       invoice_number |-> invoiceNumber(invoice.invoice_number, ms),
       status |-> "draft",
       issue_date |-> issueDate,
       due_date |-> dueDate(zone, issueDate, invoice),
       amount |-> invoice.amount,
       paid_amount |-> 0,
       is_recurring |-> TRUE,
       recurring_interval |-> invoice.recurring_interval,
       next_invoice_date |-> nextInvoiceDate(scanToday, invoice)]

(* insert([record]): the store assigns the id. *)
InsertRow(rows, rec) == Append(rows, rec @@ [id |-> Len(rows) + 1])

(* The update writing the status as well. *)
UpdateNextInvoiceDateAndStatus(rows, id, next) ==
  [k \in DOMAIN rows |->
     IF rows[k].id = id
       THEN [rows[k] EXCEPT !.next_invoice_date = next, !.status = "draft"]
       ELSE rows[k]]

(* update({ next_invoice_date }).eq('id', id) *)
UpdateNextInvoiceDate(rows, id, next) ==
  [k \in DOMAIN rows |->
     IF rows[k].id = id THEN [rows[k] EXCEPT !.next_invoice_date = next]
     ELSE rows[k]]

----------------------------------------------------------------------------
(* checkAndGenerateRecurringInvoices, one step per store call *)

ScanIds == 1..MaxScans

(* No call of startRecurringInvoiceCheck yet: no timer exists.  armedT and *)
(* armedI count the setTimeout and setInterval timers waiting for their    *)
(* time, dueT and dueI the callbacks whose time has come.                  *)
NoTimers == [starts |-> 0, armedT |-> 0, dueT |-> 0, armedI |-> 0, dueI |-> 0]

IdleScan == [pc |-> "idle", today |-> NoDate, list |-> <<>>, i |-> 1, pre |-> <<>>]

Event(s, kind, tmpl, newId) == [scan |-> s, kind |-> kind, tmpl |-> tmpl, newId |-> newId]

Running(s) == scans[s].pc \in {"query", "insert", "update"}

(* The store calls that have returned an error so far. *)
Failures ==
  Cardinality({k \in DOMAIN hist :
    hist[k].kind \in {"queryFail", "insertFail", "updateFail"}})

(* The row of the query's result the loop is at. *)
Current(s) == scans[s].list[scans[s].i]

(* The query sent again when the loop has reached the end of the list. *)
ContinueRequeries(sc) ==
  [sc EXCEPT !.i = sc.i + 1,
             !.pc = IF sc.i + 1 > Len(sc.list) THEN "query" ELSE "insert"]

(* The next iteration of the for loop, or the end of the function. *)
Continue(sc) ==
  [sc EXCEPT !.i = sc.i + 1,
             !.pc = IF sc.i + 1 > Len(sc.list) THEN "done" ELSE "insert"]

(* today = format(new Date(), 'yyyy-MM-dd'), and the query is sent. *)
StartScan(s) ==
  /\ scans[s].pc = "idle"
  /\ \A r \in ScanIds : r < s => scans[r].pc # "idle"
  /\ scans' = [scans EXCEPT ![s].pc = "query", ![s].today = today]
  /\ UNCHANGED <<sched, tz, call, store, today, nowMs, ticks, hist>>

(* The scans of one process, one at a time. *)
StartScanAlone(s) ==
  /\ \A r \in ScanIds : ~Running(r)
  /\ StartScan(s)

(* The loop sending the update of the first row before its insert. *)
QueryOkUpdateFirst(s) ==
  /\ scans[s].pc = "query"
  /\ LET list == SelectDue(store, scans[s].today)
     IN  scans' = [scans EXCEPT ![s].list = list, ![s].pre = store, ![s].i = 1,
                                ![s].pc = IF list = <<>> THEN "done" ELSE "update"]
  /\ hist' = Append(hist, Event(s, "queryOk", 0, 0))
  /\ UNCHANGED <<sched, tz, call, store, today, nowMs, ticks>>

(* The query returns the due rows. *)
QueryOk(s) ==
  /\ scans[s].pc = "query"
  /\ LET list == SelectDue(store, scans[s].today)
     IN  scans' = [scans EXCEPT ![s].list = list, ![s].pre = store, ![s].i = 1,
                                ![s].pc = IF list = <<>> THEN "done" ELSE "insert"]
  /\ hist' = Append(hist, Event(s, "queryOk", 0, 0))
  /\ UNCHANGED <<sched, tz, call, store, today, nowMs, ticks>>

(* The error of the query ignored: the loop runs over the due rows. *)
QueryFailIgnored(s) ==
  /\ Failures < MaxFailures
  /\ scans[s].pc = "query"
  /\ LET list == SelectDue(store, scans[s].today)
     IN  scans' = [scans EXCEPT ![s].list = list, ![s].pre = store, ![s].i = 1,
                                ![s].pc = IF list = <<>> THEN "done" ELSE "insert"]
  /\ hist' = Append(hist, Event(s, "queryFail", 0, 0))
  /\ UNCHANGED <<sched, tz, call, store, today, nowMs, ticks>>

(* The error of the query thrown out of the function: the rejection is    *)
(* unhandled and the timers of the process are gone.                       *)
QueryFailRejects(s) ==
  /\ Failures < MaxFailures
  /\ scans[s].pc = "query"
  /\ scans' = [scans EXCEPT ![s].pc = "done", ![s].pre = store]
  /\ hist' = Append(hist, Event(s, "queryFail", 0, 0))
  /\ sched' = [sched EXCEPT !.armedT = 0, !.dueT = 0, !.armedI = 0, !.dueI = 0]
  /\ UNCHANGED <<tz, call, store, today, nowMs, ticks>>

(* The query returns an error: thrown, caught by the outer catch, logged. *)
QueryFail(s) ==
  /\ Failures < MaxFailures
  /\ scans[s].pc = "query"
  /\ scans' = [scans EXCEPT ![s].pc = "done", ![s].pre = store]
  /\ hist' = Append(hist, Event(s, "queryFail", 0, 0))
  /\ UNCHANGED <<sched, tz, call, store, today, nowMs, ticks>>

(* The insert made only while the template's next_invoice_date is still    *)
(* the one the query returned: a compare-and-swap guard.                   *)
InsertOkGuarded(s) ==
  /\ scans[s].pc = "insert"
  /\ IF store[Current(s).id].next_invoice_date = Current(s).next_invoice_date
       THEN /\ \E ms \in nowMs..MaxMs :
                 /\ nowMs' = ms
                 /\ store' = InsertRow(store,
                                NewInvoice(tz, Current(s), scans[s].today, ms))
            /\ scans' = [scans EXCEPT ![s].pc = "update"]
            /\ hist' = Append(hist, Event(s, "insertOk", Current(s).id,
                                          Len(store) + 1))
       ELSE /\ scans' = [scans EXCEPT ![s] = Continue(scans[s])]
            /\ UNCHANGED <<store, nowMs, hist>>
  /\ UNCHANGED <<sched, tz, call, today, ticks>>

(* The insert of the occurrence succeeds. *)
InsertOk(s) ==
  /\ scans[s].pc = "insert"
  /\ \E ms \in nowMs..MaxMs :
       /\ nowMs' = ms
       /\ store' = InsertRow(store, NewInvoice(tz, Current(s), scans[s].today, ms))
  /\ scans' = [scans EXCEPT ![s].pc = "update"]
  /\ hist' = Append(hist, Event(s, "insertOk", Current(s).id, Len(store) + 1))
  /\ UNCHANGED <<sched, tz, call, today, ticks>>

(* The failed insert ending the loop. *)
InsertFailBreaks(s) ==
  /\ Failures < MaxFailures
  /\ scans[s].pc = "insert"
  /\ scans' = [scans EXCEPT ![s].pc = "done"]
  /\ hist' = Append(hist, Event(s, "insertFail", Current(s).id, 0))
  /\ UNCHANGED <<sched, tz, call, store, today, nowMs, ticks>>

(* The failed insert falling through to the update. *)
InsertFailFallsThrough(s) ==
  /\ Failures < MaxFailures
  /\ scans[s].pc = "insert"
  /\ scans' = [scans EXCEPT ![s].pc = "update"]
  /\ hist' = Append(hist, Event(s, "insertFail", Current(s).id, 0))
  /\ UNCHANGED <<sched, tz, call, store, today, nowMs, ticks>>

(* The insert returns an error: logged, `continue`. *)
InsertFail(s) ==
  /\ Failures < MaxFailures
  /\ scans[s].pc = "insert"
  /\ scans' = [scans EXCEPT ![s] = Continue(scans[s])]
  /\ hist' = Append(hist, Event(s, "insertFail", Current(s).id, 0))
  /\ UNCHANGED <<sched, tz, call, store, today, nowMs, ticks>>

(* The update of the template's next_invoice_date succeeds. *)
UpdateOk(s) ==
  /\ scans[s].pc = "update"
  /\ store' = UpdateNextInvoiceDate(store, Current(s).id,
                                    nextInvoiceDate(scans[s].today, Current(s)))
  /\ scans' = [scans EXCEPT ![s] = Continue(scans[s])]
  /\ hist' = Append(hist, Event(s, "updateOk", Current(s).id, 0))
  /\ UNCHANGED <<sched, tz, call, today, nowMs, ticks>>

(* The failed update undoing the insert of the cycle: the occurrence, the  *)
(* last row of the store, is deleted.                                      *)
UpdateFailRollsBack(s) ==
  /\ Failures < MaxFailures
  /\ scans[s].pc = "update"
  /\ store' = SubSeq(store, 1, Len(store) - 1)
  /\ scans' = [scans EXCEPT ![s] = Continue(scans[s])]
  /\ hist' = Append(hist, Event(s, "updateFail", Current(s).id, 0))
  /\ UNCHANGED <<sched, tz, call, today, nowMs, ticks>>

(* The update returns an error: logged, the loop goes on. *)
UpdateFail(s) ==
  /\ Failures < MaxFailures
  /\ scans[s].pc = "update"
  /\ scans' = [scans EXCEPT ![s] = Continue(scans[s])]
  /\ hist' = Append(hist, Event(s, "updateFail", Current(s).id, 0))
  /\ UNCHANGED <<sched, tz, call, store, today, nowMs, ticks>>

(* Midnight passes.  The clock is read only when a scan starts, so the     *)
(* midnights that pass later in a scan are those before the next scan.     *)
AdvanceDay ==
  /\ ticks < MaxDayAdvances
  /\ \A s \in ScanIds : scans[s].pc \in {"idle", "query", "done"}
  /\ ticks' = ticks + 1
  /\ today' = format(addDays(parseISO(today), 1))
  /\ UNCHANGED <<sched, tz, call, store, nowMs, scans, hist>>

----------------------------------------------------------------------------
(* Specifications *)

WithIds(rows) == [k \in DOMAIN rows |-> rows[k] @@ [id |-> k]]

InitCommon ==
  /\ call = NoCall
  /\ today \in StartDates
  /\ nowMs = 0
  /\ ticks = 0
  /\ scans = [s \in ScanIds |-> IdleScan]
  /\ hist = <<>>
  /\ sched = NoTimers

(* The scans of one process over a store of saved invoices, in the zone    *)
(* with daylight saving: its winter terms are those of the other zone.     *)
Init ==
  /\ InitCommon
  /\ tz = "dst"
  /\ \E f \in [1..NumInvoices -> DOMAIN SavedRows] :
       /\ \A j, k \in 1..NumInvoices : j < k => f[j] < f[k]
       /\ store = WithIds([k \in 1..NumInvoices |-> SavedRows[f[k]]])

Next ==
  \/ \E s \in ScanIds : StartScanAlone(s)
  \/ \E s \in ScanIds : QueryOk(s)
  \/ \E s \in ScanIds : QueryFail(s)
  \/ \E s \in ScanIds : InsertOk(s)
  \/ \E s \in ScanIds : InsertFail(s)
  \/ \E s \in ScanIds : UpdateOk(s)
  \/ \E s \in ScanIds : UpdateFail(s)
  \/ AdvanceDay

Spec == Init /\ [][Next]_vars

(* The two date functions called directly on dates of the modelled years. *)
InitDates ==
  /\ InitCommon
  /\ tz \in Zones
  /\ store = <<>>

NextDates ==
  \/ CallNextInvoiceDate
  \/ CallNextDueDate

SpecDates == InitDates /\ [][NextDates]_vars

----------------------------------------------------------------------------
(* Properties of the two date functions *)

(* The number of days from 1970-01-01 to the date written yyyymmdd. *)
DayNumber(s) == LET D == parseISO(s) IN DaysFromCivil(D.y, D.m, D.d)

(* yyyymmdd names a day of the calendar. *)
IsCalendarDate(s) ==
  LET D == parseISO(s)
  IN  D.m \in 1..12 /\ D.d >= 1 /\ D.d <= DaysInMonth(D.y, D.m)

Min(a, b) == IF a <= b THEN a ELSE b

(* C1: generateNextDueDate(issueDate, previousDueDate, previousIssueDate)  *)
(* returns the calendar date that is as many whole days after issueDate as *)
(* previousDueDate is after previousIssueDate.                             *)
C1_OffsetPreserved ==
  call.fn = "generateNextDueDate" =>
    /\ IsCalendarDate(call.result)
    /\ DayNumber(call.result) - DayNumber(call.args[1])
         = DayNumber(call.args[2]) - DayNumber(call.args[3])

(* 29 February to 1 April is 32 days, one hour short under daylight       *)
(* saving; 32 days after 31 December is 1 February.                        *)
C1_Witness ==
  /\ tz = "dst"
  /\ call.fn = "generateNextDueDate"
  /\ call.args = <<20241231, 20240401, 20240229>>
  /\ call.result = 20250201

(* C2: generateNextInvoiceDate returns a date strictly later than its      *)
(* argument, for the four known tags, an unknown tag and null.             *)
C2_StrictlyLater ==
  call.fn = "generateNextInvoiceDate" =>
    /\ IsCalendarDate(call.result)
    /\ DayNumber(call.result) > DayNumber(call.args[1])
    /\ call.result > call.args[1]

C2_Witness ==
  /\ call.fn = "generateNextInvoiceDate"
  /\ call.args = <<20241231, "biweekly">>
  /\ call.result = 20250131

(* The result is the day `k` calendar months after `d`, clamped to the     *)
(* last day of the target month.                                           *)
IsMonthsLater(d, k, result) ==
  LET D == parseISO(d)
      R == parseISO(result)
  IN  /\ R.y * 12 + R.m = D.y * 12 + D.m + k
      /\ R.d = Min(D.d, DaysInMonth(R.y, R.m))

(* C3: weekly is 7 days later; monthly, quarterly and yearly are the same  *)
(* day of the month 1, 3 and 12 months later, or the last day of that      *)
(* month when the day does not exist in it.                                *)
C3_OneUnit ==
  call.fn = "generateNextInvoiceDate" =>
    LET d == call.args[1]
        interval == call.args[2]
    IN  /\ interval = "weekly" => DayNumber(call.result) = DayNumber(d) + 7
        /\ interval = "monthly" => IsMonthsLater(d, 1, call.result)
        /\ interval = "quarterly" => IsMonthsLater(d, 3, call.result)
        /\ interval = "yearly" => IsMonthsLater(d, 12, call.result)

C3_Witness ==
  /\ call.fn = "generateNextInvoiceDate"
  /\ call.args = <<20240131, "monthly">>
  /\ call.result = 20240229

----------------------------------------------------------------------------
(* Properties of a scan *)

Done(s) == scans[s].pc = "done"

(* The store call `kind` of scan s for template t has returned. *)
Has(s, kind, t) ==
  \E k \in DOMAIN hist : hist[k].scan = s /\ hist[k].kind = kind /\ hist[k].tmpl = t

(* The ids of the rows scan s inserted for template t. *)
OccurrencesOf(s, t) ==
  {hist[k].newId : k \in {j \in DOMAIN hist :
     hist[j].scan = s /\ hist[j].kind = "insertOk" /\ hist[j].tmpl = t}}

(* The ids of the rows the query of scan s returned. *)
Listed(s) == {scans[s].list[k].id : k \in DOMAIN scans[s].list}

(* Scan s is over and none of its store calls returned an error. *)
AllCallsSucceeded(s) ==
  /\ Done(s)
  /\ \A k \in DOMAIN hist :
       hist[k].scan = s => hist[k].kind \in {"queryOk", "insertOk", "updateOk"}

(* No scan after s has got its query back: the store is as s left it. *)
Latest(s) == \A r \in ScanIds : r > s => scans[r].pc \in {"idle", "query"}

(* The row is recurring and its next date is on or before `day`. *)
DueOn(row, day) ==
  /\ row.is_recurring
  /\ row.next_invoice_date # NoDate
  /\ DayNumber(row.next_invoice_date) <= DayNumber(day)

(* C4: an interval tag that is not one of the four known ones steps like   *)
(* "monthly", and a scan over a template carrying such a tag goes through  *)
(* its insert and update with the monthly step.                            *)
C4_UnknownTagIsMonthly ==
  /\ \A tag \in Intervals \ KnownIntervals :
       generateNextInvoiceDate(today, tag) = generateNextInvoiceDate(today, "monthly")
  /\ \A k \in DOMAIN hist :
       LET e == hist[k]
           t == scans[e.scan].pre[e.tmpl]
           monthly == generateNextInvoiceDate(scans[e.scan].today, "monthly")
       IN  e.kind \in {"insertOk", "updateOk"} /\ t.recurring_interval \notin KnownIntervals =>
             /\ e.kind = "insertOk" => store[e.newId].next_invoice_date = monthly
             /\ e.kind = "updateOk" /\ k = Len(hist) =>
                  store[e.tmpl].next_invoice_date = monthly
  /\ \A s \in ScanIds : Done(s) /\ Has(s, "queryOk", 0) =>
       \A t \in Listed(s) :
         scans[s].pre[t].recurring_interval \notin KnownIntervals =>
           Has(s, "insertOk", t) \/ Has(s, "insertFail", t)

C4_Witness ==
  \E s \in ScanIds : \E t \in Listed(s) :
    /\ Done(s) /\ Latest(s)
    /\ scans[s].today = 20240229
    /\ scans[s].pre[t].recurring_interval = "biweekly"
    /\ Has(s, "insertOk", t) /\ Has(s, "updateOk", t)
    /\ store[t].next_invoice_date = 20240329
    /\ \A o \in OccurrencesOf(s, t) : store[o].next_invoice_date = 20240329

(* C5: a scan whose store calls all succeed inserts one occurrence for     *)
(* each row that was recurring with next_invoice_date <= today when the    *)
(* query ran, and none for any other row; the other rows are unchanged.    *)
C5_OccurrenceIffDue ==
  \A s \in ScanIds : AllCallsSucceeded(s) /\ Latest(s) =>
    LET pre == scans[s].pre
        due == {id \in DOMAIN pre : DueOn(pre[id], scans[s].today)}
    IN  /\ \A id \in due :
             /\ Cardinality(OccurrencesOf(s, id)) = 1
             /\ \A o \in OccurrencesOf(s, id) : o > Len(pre) /\ o \in DOMAIN store
        /\ \A id \in DOMAIN pre \ due :
             /\ OccurrencesOf(s, id) = {}
             /\ store[id] = pre[id]
        /\ Len(store) = Len(pre) + Cardinality(due)

C5_Witness ==
  \E s \in ScanIds : \E a, b \in DOMAIN scans[s].pre :
    /\ AllCallsSucceeded(s) /\ Latest(s)
    /\ DueOn(scans[s].pre[a], scans[s].today)
    /\ scans[s].pre[a].next_invoice_date = scans[s].today
    /\ OccurrencesOf(s, a) # {}
    /\ scans[s].pre[b].is_recurring
    /\ scans[s].pre[b].next_invoice_date > scans[s].today
    /\ OccurrencesOf(s, b) = {}
    /\ Len(store) = Len(scans[s].pre) + 1

(* C6: an inserted occurrence copies user_id, project_id, client_id,       *)
(* amount and recurring_interval from its template, is a draft with        *)
(* nothing paid, is recurring, is issued on the scan's today, is due after *)
(* the template's term and has its next date one step after today.         *)
C6_OccurrenceFields ==
  \A k \in DOMAIN hist : hist[k].kind = "insertOk" =>
    LET t == scans[hist[k].scan].pre[hist[k].tmpl]
        o == store[hist[k].newId]
        day == scans[hist[k].scan].today
    IN  /\ o.user_id = t.user_id
        /\ o.project_id = t.project_id
        /\ o.client_id = t.client_id
        /\ o.amount = t.amount
        /\ o.recurring_interval = t.recurring_interval
        /\ o.status = "draft"
        /\ o.paid_amount = 0
        /\ o.is_recurring = TRUE
        /\ o.issue_date = day
        /\ o.due_date = generateNextDueDate(tz, day, t.due_date, t.issue_date)
        /\ o.next_invoice_date = generateNextInvoiceDate(day, t.recurring_interval)

(* Scenario 1 of the specification, with the template one day overdue. *)
C6_Witness ==
  \E k \in DOMAIN hist :
    /\ hist[k].kind = "insertOk"
    /\ scans[hist[k].scan].pre[hist[k].tmpl].issue_date = 20240101
    /\ scans[hist[k].scan].pre[hist[k].tmpl].due_date = 20240131
    /\ scans[hist[k].scan].pre[hist[k].tmpl].status = "sent"
    /\ store[hist[k].newId].issue_date = 20240201
    /\ store[hist[k].newId].due_date = 20240302
    /\ store[hist[k].newId].next_invoice_date = 20240301
    /\ store[hist[k].newId].status = "draft"

(* C7: after a scan, a template whose insert and update both succeeded has *)
(* next_invoice_date one interval step after the scan's today, whatever    *)
(* its next_invoice_date was before.                                       *)
C7_AdvancedFromToday ==
  \A s \in ScanIds : Done(s) /\ Latest(s) =>
    \A t \in Listed(s) : Has(s, "insertOk", t) /\ Has(s, "updateOk", t) =>
      store[t].next_invoice_date =
        generateNextInvoiceDate(scans[s].today, scans[s].pre[t].recurring_interval)

C7_Witness ==
  \E s \in ScanIds : \E t \in Listed(s) :
    /\ Done(s) /\ Latest(s)
    /\ Has(s, "insertOk", t) /\ Has(s, "updateOk", t)
    /\ scans[s].pre[t].next_invoice_date = 20231115
    /\ scans[s].pre[t].recurring_interval = "quarterly"
    /\ scans[s].today = 20240131
    /\ store[t].next_invoice_date = 20240430

(* C8: a failed insert or update for one template does not end the scan:   *)
(* every row the query returned gets its insert, every inserted one its    *)
(* update, and each one whose insert and update succeed has its occurrence *)
(* and is no longer due.                                                   *)
C8_FailureIsolated ==
  \A s \in ScanIds : Done(s) /\ Has(s, "queryOk", 0) =>
    \A t \in Listed(s) :
      /\ Has(s, "insertOk", t) \/ Has(s, "insertFail", t)
      /\ Has(s, "insertOk", t) => Has(s, "updateOk", t) \/ Has(s, "updateFail", t)
      /\ Latest(s) /\ Has(s, "insertOk", t) /\ Has(s, "updateOk", t) =>
           /\ OccurrencesOf(s, t) # {}
           /\ store[t].next_invoice_date > scans[s].today
           /\ store[t].next_invoice_date # scans[s].pre[t].next_invoice_date

C8_Witness ==
  \E s \in ScanIds :
    /\ Done(s) /\ Latest(s)
    /\ Len(scans[s].list) = 2
    /\ Has(s, "insertFail", scans[s].list[1].id)
    /\ Has(s, "insertOk", scans[s].list[2].id)
    /\ Has(s, "updateOk", scans[s].list[2].id)
    /\ store[scans[s].list[2].id].next_invoice_date > scans[s].today

(* C9: a failed insert leaves no occurrence and leaves the template as it  *)
(* was, still due; the next scan's query returns it again.                 *)
C9_FailedInsertRetried ==
  \A s \in ScanIds : \A t \in Listed(s) : Has(s, "insertFail", t) =>
    /\ OccurrencesOf(s, t) = {}
    /\ Latest(s) => store[t] = scans[s].pre[t] /\ DueOn(store[t], today)
    /\ \A r \in ScanIds : r = s + 1 /\ Has(r, "queryOk", 0) => t \in Listed(r)

C9_Witness ==
  \E s \in ScanIds : \E t \in Listed(s) :
    /\ s + 1 \in ScanIds
    /\ Has(s, "insertFail", t)
    /\ Has(s + 1, "queryOk", 0)
    /\ t \in Listed(s + 1)
    /\ Has(s + 1, "insertOk", t)

(* C10: a failed query ends the scan with no insert and no update, the     *)
(* store as it was; the next scan whose query succeeds reads that same     *)
(* store and gets every row that was due.                                  *)
C10_FailedQueryAborts ==
  \A s \in ScanIds : Has(s, "queryFail", 0) =>
    /\ Done(s)
    /\ \A k \in DOMAIN hist : hist[k].scan = s => hist[k].kind = "queryFail"
    /\ Latest(s) => store = scans[s].pre
    /\ \A r \in ScanIds : r = s + 1 /\ Has(r, "queryOk", 0) =>
         /\ scans[r].pre = scans[s].pre
         /\ \A id \in DOMAIN scans[s].pre :
              DueOn(scans[s].pre[id], scans[s].today) => id \in Listed(r)

C10_Witness ==
  \E s \in ScanIds :
    /\ s + 1 \in ScanIds
    /\ Has(s, "queryFail", 0)
    /\ \E id \in DOMAIN scans[s].pre : DueOn(scans[s].pre[id], scans[s].today)
    /\ Done(s + 1)
    /\ Has(s + 1, "queryOk", 0)
    /\ \E t \in Listed(s + 1) : Has(s + 1, "insertOk", t) /\ Has(s + 1, "updateOk", t)

----------------------------------------------------------------------------
(* Two scans in succession *)

(* C11 as stated: when two scans run one after the other on the same day   *)
(* and every store call succeeds, the second scan inserts an occurrence    *)
(* again for each template the first one inserted an occurrence for.       *)
C11_DuplicateInSuccession ==
  \A s \in ScanIds : \A t \in Listed(s) :
    /\ s + 1 \in ScanIds
    /\ AllCallsSucceeded(s) /\ AllCallsSucceeded(s + 1)
    /\ Has(s + 1, "queryOk", 0)
    /\ scans[s + 1].today = scans[s].today
    /\ Has(s, "insertOk", t)
    => OccurrencesOf(s + 1, t) # {}

(* C11, amended: a scan that runs after another one has ended, on the same *)
(* day, inserts nothing for a template whose insert and update succeeded   *)
(* in the first scan, nor for the occurrence the first scan inserted.      *)
C11_NoDuplicateInSuccession ==
  \A s \in ScanIds : \A t \in Listed(s) :
    /\ s + 1 \in ScanIds
    /\ Has(s, "insertOk", t) /\ Has(s, "updateOk", t)
    /\ Has(s + 1, "queryOk", 0)
    /\ scans[s + 1].today = scans[s].today
    => /\ t \notin Listed(s + 1)
       /\ OccurrencesOf(s + 1, t) = {}
       /\ OccurrencesOf(s, t) \cap Listed(s + 1) = {}

C11_Witness ==
  \E s \in ScanIds : \E t \in Listed(s) :
    /\ s + 1 \in ScanIds
    /\ AllCallsSucceeded(s) /\ AllCallsSucceeded(s + 1)
    /\ Has(s, "insertOk", t) /\ Has(s, "updateOk", t)
    /\ Has(s + 1, "queryOk", 0)
    /\ scans[s + 1].today = scans[s].today
    /\ OccurrencesOf(s + 1, t) = {}
    /\ Len(store) = Len(scans[s].pre) + Len(scans[s].list)

----------------------------------------------------------------------------
(* What a scan writes *)

(* C19: a scan leaves every field of a row it found in the store as it     *)
(* was, except next_invoice_date, whether its insert and update succeeded  *)
(* or failed.                                                              *)
C19_OnlyNextDateChanges ==
  \A s \in ScanIds : Has(s, "queryOk", 0) /\ Latest(s) =>
    \A id \in DOMAIN scans[s].pre :
      LET before == scans[s].pre[id]
          after == store[id]
      IN  /\ after.id = before.id
          /\ after.user_id = before.user_id
          /\ after.project_id = before.project_id
          /\ after.client_id = before.client_id
          /\ after.invoice_number = before.invoice_number
          /\ after.status = before.status
          /\ after.issue_date = before.issue_date
          /\ after.due_date = before.due_date
          /\ after.amount = before.amount
          /\ after.paid_amount = before.paid_amount
          /\ after.is_recurring = before.is_recurring
          /\ after.recurring_interval = before.recurring_interval

C19_Witness ==
  \E s \in ScanIds : \E a, b \in Listed(s) :
    /\ Done(s) /\ Latest(s)
    /\ Has(s, "insertOk", a) /\ Has(s, "updateOk", a)
    /\ store[a].next_invoice_date # scans[s].pre[a].next_invoice_date
    /\ store[a].status = "sent"
    /\ Has(s, "insertFail", b)
    /\ store[b] = scans[s].pre[b]

----------------------------------------------------------------------------
(* Overlapping scans: two tabs, two processes, or two invocations in one   *)
(* process whose store calls are still in flight                           *)

InitOverlap ==
  /\ InitCommon
  /\ tz = "dst"
  /\ store = WithIds(<<SavedRows[1]>>)

(* Every store call succeeds: the overlap alone is at issue. *)
NextOverlap ==
  \/ \E s \in ScanIds : StartScan(s)
  \/ \E s \in ScanIds : QueryOk(s)
  \/ \E s \in ScanIds : InsertOk(s)
  \/ \E s \in ScanIds : UpdateOk(s)
  \/ AdvanceDay

SpecOverlap == InitOverlap /\ [][NextOverlap]_vars

(* The query of scan r returned before any update of row t was committed. *)
QueriedBeforeUpdate(r, t) ==
  \E q \in DOMAIN hist :
    /\ hist[q].scan = r /\ hist[q].kind = "queryOk"
    /\ \A u \in DOMAIN hist :
         hist[u].kind = "updateOk" /\ hist[u].tmpl = t => u > q

(* C12: nothing claims or locks a template.  Every scan whose query       *)
(* returns before an update of a due template is committed has that        *)
(* template in its list; a scan that has finished has inserted an          *)
(* occurrence for every row of its list, whatever the other scans did      *)
(* meanwhile; and the occurrences two scans insert for one template are    *)
(* two rows, issued on the same day when the scans read the same date.     *)
C12_NoClaimOnTemplate ==
  /\ \A r \in ScanIds : \A t \in DOMAIN scans[r].pre :
       QueriedBeforeUpdate(r, t) /\ DueOn(scans[r].pre[t], scans[r].today)
         => t \in Listed(r)
  /\ \A s \in ScanIds : \A t \in Listed(s) :
       Done(s) => OccurrencesOf(s, t) # {}
  /\ \A r, s \in ScanIds : \A t \in Listed(r) \cap Listed(s) :
       r # s =>
         /\ OccurrencesOf(r, t) \cap OccurrencesOf(s, t) = {}
         /\ \A a \in OccurrencesOf(r, t), b \in OccurrencesOf(s, t) :
              scans[r].today = scans[s].today =>
                store[a].issue_date = store[b].issue_date

(* Two scans have both inserted an occurrence for the same template on the *)
(* same day, the second one after the first one's update was committed.    *)
C12_Witness ==
  \E r, s \in ScanIds : \E t \in Listed(r) \cap Listed(s) :
    /\ r # s
    /\ scans[r].today = scans[s].today
    /\ QueriedBeforeUpdate(r, t) /\ QueriedBeforeUpdate(s, t)
    /\ Has(r, "updateOk", t)
    /\ Done(r) /\ Done(s)
    /\ \E a \in OccurrencesOf(r, t), b \in OccurrencesOf(s, t) :
         /\ a # b
         /\ store[a].issue_date = store[b].issue_date
         /\ store[a].issue_date = scans[r].today

----------------------------------------------------------------------------
(* Scans a week apart: the tab stays open, or is opened again, after the   *)
(* shortest interval has passed                                            *)

(* Seven midnights pass between two scans. *)
AdvanceWeek ==
  /\ ticks < MaxDayAdvances
  /\ \A s \in ScanIds : scans[s].pc \in {"idle", "done"}
  /\ ticks' = ticks + 1
  /\ today' = format(addDays(parseISO(today), 7))
  /\ UNCHANGED <<sched, tz, call, store, nowMs, scans, hist>>

InitLater ==
  /\ InitCommon
  /\ tz = "dst"
  /\ \E k \in DOMAIN SavedRows : store = WithIds(<<SavedRows[k]>>)

(* Every store call succeeds and the scans run one at a time. *)
NextLater ==
  \/ \E s \in ScanIds : StartScanAlone(s)
  \/ \E s \in ScanIds : QueryOk(s)
  \/ \E s \in ScanIds : InsertOk(s)
  \/ \E s \in ScanIds : UpdateOk(s)
  \/ AdvanceDay
  \/ AdvanceWeek

SpecLater == InitLater /\ [][NextLater]_vars

(* Row t was inserted by a scan. *)
InsertedByScan(t) ==
  \E k \in DOMAIN hist : hist[k].kind = "insertOk" /\ hist[k].newId = t

(* C13: a row inserted by a scan is never in the list of a later scan:     *)
(* only the original template drives future generation.                    *)
C13_OccurrenceNeverTemplate ==
  \A s \in ScanIds : \A t \in Listed(s) : ~InsertedByScan(t)

(* Row o2 was inserted from row o, which was inserted from row t. *)
SecondGeneration(t, o, o2) ==
  \E j, k \in DOMAIN hist :
    /\ j < k
    /\ hist[j].kind = "insertOk" /\ hist[j].tmpl = t /\ hist[j].newId = o
    /\ hist[k].kind = "insertOk" /\ hist[k].tmpl = o /\ hist[k].newId = o2

(* The days from the issue date of a row to its due date. *)
TermDays(row) == DayNumber(row.due_date) - DayNumber(row.issue_date)

(* C18: when an occurrence generated from a template is the template of a  *)
(* second generation, the second occurrence has the issue-to-due offset of *)
(* the original template and a next_invoice_date strictly after the issue  *)
(* date of the first generation.                                           *)
C18_RoundTrip ==
  \A t, o, o2 \in DOMAIN store :
    SecondGeneration(t, o, o2) =>
      /\ TermDays(store[o2]) = TermDays(store[t])
      /\ TermDays(store[o]) = TermDays(store[t])
      /\ store[o2].next_invoice_date # NoDate
      /\ DayNumber(store[o2].next_invoice_date) > DayNumber(store[o].issue_date)

(* The weekly invoice with a term of three days: its occurrence of         *)
(* 29 February is the template of the occurrence of 7 March.               *)
C18_Witness ==
  \E t, o, o2 \in DOMAIN store :
    /\ SecondGeneration(t, o, o2)
    /\ ~InsertedByScan(t)
    /\ TermDays(store[t]) = 3
    /\ store[o].issue_date = 20240229
    /\ store[o2].issue_date = 20240307
    /\ store[o2].due_date = 20240310

----------------------------------------------------------------------------
(* startRecurringInvoiceCheck: the immediate scan, the timeout to the next *)
(* local midnight and the interval of 24 hours                             *)

Triggers == {"immediate", "midnight", "interval"}

(* useEffect(() => { startRecurringInvoiceCheck(); }, []) in the root      *)
(* component: one call for each mount, and the root is mounted once.       *)
AppMounts == 1

(* A call of checkAndGenerateRecurringInvoices: it runs up to its first    *)
(* await, the query.  Slot s holds no invocation in progress.              *)
BeginScan(s, trigger) ==
  /\ scans[s].pc \in {"idle", "done"}
  /\ \A r \in ScanIds : r < s => Running(r)
  /\ scans' = [scans EXCEPT ![s] = [IdleScan EXCEPT !.pc = "query",
                                                    !.today = today]]
  /\ hist' = Append(hist, Event(s, trigger, 0, 0))

(* The interval armed by the call itself, not by the callback of the       *)
(* timeout.                                                                *)
StartArmsInterval ==
  /\ sched.starts < AppMounts
  /\ \E s \in ScanIds : BeginScan(s, "immediate")
  /\ sched' = [sched EXCEPT !.starts = @ + 1, !.armedT = @ + 1,
                            !.armedI = @ + 1]
  /\ UNCHANGED <<tz, call, store, today, nowMs, ticks>>

(* startRecurringInvoiceCheck(): the scan, then setTimeout(..., *)
(* timeUntilMidnight).                                                     *)
Start ==
  /\ sched.starts < AppMounts
  /\ \E s \in ScanIds : BeginScan(s, "immediate")
  /\ sched' = [sched EXCEPT !.starts = @ + 1, !.armedT = @ + 1]
  /\ UNCHANGED <<tz, call, store, today, nowMs, ticks>>

(* The next local midnight: the timeouts armed since the last one and the  *)
(* intervals armed 24 hours ago have their callbacks queued.  The queued   *)
(* callbacks of the last midnight have run by now, and at most one scan is *)
(* still waiting for its query.                                            *)
Midnight ==
  /\ ticks < MaxMidnights
  /\ sched.starts > 0
  /\ sched.dueT = 0 /\ sched.dueI = 0
  /\ \A s \in ScanIds : scans[s].pc \in {"idle", "query", "done"}
  /\ \A r, s \in ScanIds : Running(r) /\ Running(s) => r = s
  /\ ticks' = ticks + 1
  /\ today' = format(addDays(parseISO(today), 1))
  /\ sched' = [sched EXCEPT !.dueT = sched.armedT, !.armedT = 0,
                            !.dueI = sched.armedI]
  /\ UNCHANGED <<tz, call, store, nowMs, scans, hist>>

(* The callback of setTimeout: the scan, then setInterval(..., 24 h). *)
TimeoutFires ==
  /\ sched.dueT > 0
  /\ \E s \in ScanIds : BeginScan(s, "midnight")
  /\ sched' = [sched EXCEPT !.dueT = @ - 1, !.armedI = @ + 1]
  /\ UNCHANGED <<tz, call, store, today, nowMs, ticks>>

(* The callback of setInterval: the scan. *)
IntervalFires ==
  /\ sched.dueI > 0
  /\ \E s \in ScanIds : BeginScan(s, "interval")
  /\ sched' = [sched EXCEPT !.dueI = @ - 1]
  /\ UNCHANGED <<tz, call, store, today, nowMs, ticks>>

InitSched ==
  /\ InitCommon
  /\ tz = "dst"
  /\ store = WithIds(<<SavedRows[1]>>)

NextSched ==
  \/ Start
  \/ Midnight
  \/ TimeoutFires
  \/ IntervalFires
  \/ \E s \in ScanIds : QueryOk(s)
  \/ \E s \in ScanIds : QueryFail(s)
  \/ \E s \in ScanIds : InsertOk(s)
  \/ \E s \in ScanIds : InsertFail(s)
  \/ \E s \in ScanIds : UpdateOk(s)
  \/ \E s \in ScanIds : UpdateFail(s)

SpecSched == InitSched /\ [][NextSched]_vars

(* C14: within one process no two scans are in progress at the same time:  *)
(* the immediate scan, the midnight scan and the interval scans never      *)
(* overlap, whatever the latency of the store calls.                       *)
C14_NoTwoScansAtOnce ==
  \A r, s \in ScanIds : Running(r) /\ Running(s) => r = s

(* The scans triggered so far, in order. *)
IsTrigger(e) == e.kind \in Triggers

TriggerLog == SelectSeq(hist, IsTrigger)

(* C15: the first scan is the immediate one, the second the one of the     *)
(* timeout at the next local midnight, every later one a scan of the       *)
(* interval, one for each midnight after that; the interval is armed only  *)
(* when the timeout has fired.                                             *)
C15_TriggerOrder ==
  /\ \A k \in DOMAIN TriggerLog :
       TriggerLog[k].kind = (IF k = 1 THEN "immediate"
                             ELSE IF k = 2 THEN "midnight" ELSE "interval")
  /\ sched.starts > 0 =>
       Len(TriggerLog) + sched.dueT + sched.dueI = ticks + 1
  /\ sched.armedI > 0 =>
       \E k \in DOMAIN TriggerLog : TriggerLog[k].kind = "midnight"
  /\ sched.armedI <= 1 /\ sched.armedT + sched.dueT <= 1

(* Two midnights after the start: the third scan is the first one of the   *)
(* interval.                                                               *)
C15_Witness ==
  /\ ticks = 2
  /\ Len(TriggerLog) = 3
  /\ TriggerLog[1].kind = "immediate"
  /\ TriggerLog[2].kind = "midnight"
  /\ TriggerLog[3].kind = "interval"
  /\ sched.armedI = 1

FailKinds == {"queryFail", "insertFail", "updateFail"}

(* C16: no failure of a store call stops the periodic trigger.  Whatever   *)
(* calls have failed, every invocation is at a store call or over, the     *)
(* timer of the start is still armed or its callback queued, one scan has  *)
(* been triggered or is queued for every midnight since the start, and a   *)
(* queued callback can run as soon as an invocation slot is free.          *)
C16_TriggerSurvives ==
  /\ \A s \in ScanIds : scans[s].pc \in {"idle", "query", "insert", "update", "done"}
  /\ sched.armedT + sched.dueT + sched.armedI = sched.starts
  /\ sched.starts > 0 =>
       ticks + 1 = Len(TriggerLog) + sched.dueT + sched.dueI
  /\ sched.dueT > 0 /\ (\E s \in ScanIds : ~Running(s)) => ENABLED TimeoutFires
  /\ sched.dueI > 0 /\ (\E s \in ScanIds : ~Running(s)) => ENABLED IntervalFires

(* A store call has failed and the interval has triggered a scan after it. *)
C16_Witness ==
  \E j, k \in DOMAIN hist :
    /\ j < k
    /\ hist[j].kind \in FailKinds
    /\ hist[k].kind = "interval"
    /\ Failures = MaxFailures

----------------------------------------------------------------------------
(* Late scans: the process is started days after a template fell due, the  *)
(* scans keep being triggered and a store call that is retried succeeds    *)

(* A midnight passes before the first scan of the process. *)
LateDay ==
  /\ \A s \in ScanIds : scans[s].pc = "idle"
  /\ AdvanceDay

NextLive ==
  \/ LateDay
  \/ \E s \in ScanIds : StartScanAlone(s)
  \/ \E s \in ScanIds : QueryOk(s)
  \/ \E s \in ScanIds : QueryFail(s)
  \/ \E s \in ScanIds : InsertOk(s)
  \/ \E s \in ScanIds : InsertFail(s)
  \/ \E s \in ScanIds : UpdateOk(s)
  \/ \E s \in ScanIds : UpdateFail(s)

(* The timers trigger every scan, and a store call that is pending gets    *)
(* its answer: fewer calls fail than scans are triggered.                  *)
Fairness ==
  \A s \in ScanIds :
    /\ WF_vars(StartScanAlone(s))
    /\ WF_vars(QueryOk(s) \/ QueryFail(s))
    /\ WF_vars(InsertOk(s) \/ InsertFail(s))
    /\ WF_vars(UpdateOk(s) \/ UpdateFail(s))

SpecLive == InitLater /\ [][NextLive]_vars /\ Fairness

(* Template t has an occurrence and its next date is past today. *)
Generated(t) ==
  /\ \E k \in DOMAIN hist : hist[k].kind = "insertOk" /\ hist[k].tmpl = t
  /\ store[t].next_invoice_date > today

(* C17: a recurring template whose next_invoice_date is today or has       *)
(* passed, by any number of days, eventually has an occurrence and a       *)
(* next_invoice_date after today.                                          *)
C17_LateScansHeal ==
  (DueOn(store[1], today)) ~> Generated(1)

(* The quarterly invoice that fell due in November is scanned at the end   *)
(* of February, after a midnight has passed and a store call has failed.   *)
C17_Witness ==
  /\ ticks > 0
  /\ Failures = MaxFailures
  /\ \E s \in ScanIds :
       /\ Has(s, "insertOk", 1)
       /\ scans[s].pre[1].next_invoice_date = 20231115
       /\ scans[s].today > 20240131
  /\ Generated(1)

----------------------------------------------------------------------------
(* The invoice form: handleSubmit, for a new invoice and for an edited one *)

(* The value of an <input type="date"> left blank: the empty string. *)
EmptyDate == -1

(* The states of the form at submit.  The interval is one of the options   *)
(* of the select, the next date is blank or picked, and the number is      *)
(* blank or typed.                                                         *)
FormData ==
  [project_id : {"p1"}, client_id : {"c1"},
   invoice_number : {"", "A-1"},
   status : {"draft"},
   issue_date : {20240115}, due_date : {20240214},
   amount : {100}, paid_amount : {0},
   is_recurring : BOOLEAN,
   recurring_interval : {"monthly", "weekly"},
   next_invoice_date : {EmptyDate, 20240131}]

(* `${prefix}-${timestamp}-${random}`, with one value of the random part. *)
generateInvoiceNumber(ms) == "INV-" \o Suffix(ms) \o "-042"

(* The interval and the next date set to null whatever is_recurring is. *)
invoiceDataNullsAlways(formData, ms) ==
  [formData EXCEPT
     !.invoice_number = IF formData.invoice_number # ""
                          THEN formData.invoice_number
                          ELSE generateInvoiceNumber(ms),
     !.next_invoice_date = NoDate,
     !.recurring_interval = NullInterval]
  @@ [user_id |-> "u1"]

(* const invoiceData = { ...formData, user_id, invoice_number, ...(formData.is_recurring ? {} : {...}) } *)
invoiceData(formData, ms) ==
  [formData EXCEPT
     !.invoice_number = IF formData.invoice_number # ""
                          THEN formData.invoice_number
                          ELSE generateInvoiceNumber(ms),
     !.next_invoice_date = IF formData.is_recurring
                             THEN formData.next_invoice_date ELSE NoDate,
     !.recurring_interval = IF formData.is_recurring
                              THEN formData.recurring_interval
                              ELSE NullInterval]
  @@ [user_id |-> "u1"]

(* The invoices table takes a calendar date or null in next_invoice_date:  *)
(* the empty string is not a date and the write returns an error.          *)
StoreAccepts(rec) ==
  rec.next_invoice_date = NoDate \/ rec.next_invoice_date \in AllDates

(* update(invoiceData).eq('id', editingInvoice.id) *)
UpdateRow(rows, id, rec) ==
  [k \in DOMAIN rows |-> IF rows[k].id = id THEN rec @@ [id |-> id] ELSE rows[k]]

SaveKinds == {"saveOk", "saveFail"}

Saves == Cardinality({k \in DOMAIN hist : hist[k].kind \in SaveKinds})

(* handleSubmit: editing = 0 when editingInvoice is null.  An error of the *)
(* store is caught and shown; nothing is saved.  A save can fall between   *)
(* any two store calls of a scan.                                          *)
handleSubmit ==
  /\ Saves < MaxSaves
  /\ \E formData \in FormData, editing \in {0} \cup DOMAIN store, ms \in nowMs..MaxMs :
       LET rec == invoiceData(formData, ms)
       IN  /\ nowMs' = ms
           /\ IF StoreAccepts(rec)
                THEN /\ store' = IF editing = 0 THEN InsertRow(store, rec)
                                 ELSE UpdateRow(store, editing, rec)
                     /\ hist' = Append(hist, Event(0, "saveOk",
                                   IF editing = 0 THEN Len(store) + 1 ELSE editing, 0))
                ELSE /\ store' = store
                     /\ hist' = Append(hist, Event(0, "saveFail", editing, 0))
  /\ UNCHANGED <<sched, tz, call, today, ticks, scans>>

InitForm ==
  /\ InitCommon
  /\ tz = "dst"
  /\ store = <<>>

NextForm ==
  \/ handleSubmit
  \/ \E s \in ScanIds : StartScanAlone(s)
  \/ \E s \in ScanIds : QueryOk(s)
  \/ \E s \in ScanIds : InsertOk(s)
  \/ \E s \in ScanIds : UpdateOk(s)

SpecForm == InitForm /\ [][NextForm]_vars

----------------------------------------------------------------------------
(* The invoice numbers of two iterations of the loop of a scan, computed   *)
(* in the scans and, once they are over, on numbers and readings of the    *)
(* clock the two saved rows do not cover                                   *)

(* Numbers a template can carry: the form's own, typed ones without a      *)
(* dash, with a leading dash and with two dashes in a row.                 *)
Numbers == {"INV-000123-001", "INV-000456-002", "ACME", "W-7", "-5", "A--B"}

(* Readings of Date.now(), in milliseconds from the instant nowMs counts   *)
(* from: in one millisecond, a millisecond apart, one and two moduli       *)
(* apart.                                                                  *)
Readings == {1000000, 1000123, 1000124, 1999999, 2000123, 3000123}

CallInvoiceNumbers ==
  /\ call = NoCall
  /\ \A s \in ScanIds : scans[s].pc = "done"
  /\ \E a \in Numbers, b \in Numbers, t1 \in Readings, t2 \in Readings :
       /\ t1 <= t2
       /\ call' = [fn |-> "invoiceNumber", args |-> <<a, t1, b, t2>>,
                   result |-> <<invoiceNumber(a, t1), invoiceNumber(b, t2)>>]
  /\ UNCHANGED <<sched, tz, store, today, nowMs, ticks, scans, hist>>

(* Two templates with the prefix INV, both due at the end of February. *)
InitNumbers ==
  /\ InitCommon
  /\ today = 20240229
  /\ tz = "dst"
  /\ store = WithIds(<<SavedRows[1], SavedRows[3]>>)

NextNumbers ==
  \/ CallInvoiceNumbers
  \/ \E s \in ScanIds : StartScanAlone(s)
  \/ \E s \in ScanIds : QueryOk(s)
  \/ \E s \in ScanIds : InsertOk(s)
  \/ \E s \in ScanIds : UpdateOk(s)

SpecNumbers == InitNumbers /\ [][NextNumbers]_vars

(* The text has no '-' in it. *)
RECURSIVE HasNoDash(_)
HasNoDash(str) ==
  \/ str = ""
  \/ SubSeq(str, 1, 1) # "-" /\ HasNoDash(SubSeq(str, 2, Len(str)))

(* C21: the number of an occurrence is the text before the first '-' of    *)
(* the template's number, the whole number when it has no '-', then '-'    *)
(* and the suffix of the clock reading; the rest of the template's number  *)
(* is discarded.                                                           *)
C21_PrefixAndSuffix ==
  /\ call.fn = "invoiceNumber" =>
       LET number == call.args[1]
           result == call.result[1]
           prefix == SubSeq(result, 1, Len(result) - 7)
       IN  /\ Len(result) >= 7
           /\ SubSeq(result, Len(result) - 6, Len(result))
                = "-" \o Suffix(call.args[2])
           /\ HasNoDash(prefix)
           /\ \/ number = prefix
              \/ /\ Len(number) > Len(prefix)
                 /\ SubSeq(number, 1, Len(prefix) + 1) = prefix \o "-"
  /\ \A k \in DOMAIN hist :
       hist[k].kind = "insertOk" =>
         LET result == store[hist[k].newId].invoice_number
         IN  /\ Len(result) = 10
             /\ SubSeq(result, 1, 4) = "INV-"
             /\ HasNoDash(SubSeq(result, 5, 10))

(* INV-000123-001 at reading 1000123 gives INV-000123, and a scan has      *)
(* numbered an occurrence of that template.                                *)
C21_Witness ==
  /\ call.fn = "invoiceNumber"
  /\ call.args[1] = "INV-000123-001"
  /\ call.args[2] = 1000123
  /\ call.result[1] = "INV-000123"
  /\ \E k \in DOMAIN hist :
       /\ hist[k].kind = "insertOk"
       /\ hist[k].tmpl = 1
       /\ store[hist[k].newId].invoice_number = "INV-000000"

(* The rows the scans have inserted. *)
InsertedRows == {hist[k].newId : k \in {j \in DOMAIN hist : hist[j].kind = "insertOk"}}

(* C27: the suffix is the clock reading modulo 1,000,000, written with six *)
(* digits.  Two generations from templates with the same prefix get the    *)
(* same number exactly when their readings are equal modulo 1,000,000; a   *)
(* scan inserts its occurrence for every listed template whatever numbers  *)
(* are in the store already, so the occurrences of templates with one      *)
(* prefix carry no more different numbers than the clock had readings.     *)
C27_SuffixModuloMillion ==
  /\ call.fn = "invoiceNumber" =>
       LET a == call.args[1]
           t1 == call.args[2]
           b == call.args[3]
           t2 == call.args[4]
       IN  /\ Len(Suffix(t1)) = 6
           /\ call.result[1] = BeforeFirstDash(a) \o "-" \o Suffix(t1)
           /\ BeforeFirstDash(a) = BeforeFirstDash(b) =>
                (call.result[1] = call.result[2]
                   <=> t1 % 1000000 = t2 % 1000000)
  /\ \A s \in ScanIds : \A t \in Listed(s) :
       Done(s) => Cardinality(OccurrencesOf(s, t)) = 1
  /\ \A id \in InsertedRows :
       \E r \in 0..nowMs : store[id].invoice_number = "INV-" \o Suffix(r)
  /\ Cardinality({store[id].invoice_number : id \in InsertedRows}) <= nowMs + 1

(* One scan has inserted two occurrences with the same number, and two     *)
(* readings two million milliseconds apart give the same number.           *)
C27_Witness ==
  /\ \E s \in ScanIds : \E t, u \in Listed(s) :
       /\ t # u
       /\ \E x \in OccurrencesOf(s, t), y \in OccurrencesOf(s, u) :
            /\ x # y
            /\ store[x].invoice_number = store[y].invoice_number
  /\ call.fn = "invoiceNumber"
  /\ call.args = <<"INV-000123-001", 1000123, "INV-000456-002", 3000123>>
  /\ call.result = <<"INV-000123", "INV-000123">>

(* C22: the update of a template's next_invoice_date is sent only after    *)
(* the insert of its occurrence in the same cycle has returned without     *)
(* error, and a template whose next_invoice_date a scan has changed has an *)
(* occurrence inserted by that scan.                                       *)
C22_InsertBeforeUpdate ==
  /\ \A u \in DOMAIN hist :
       hist[u].kind \in {"updateOk", "updateFail"} =>
         /\ \E j \in 1..(u - 1) :
              /\ hist[j].kind = "insertOk"
              /\ hist[j].scan = hist[u].scan
              /\ hist[j].tmpl = hist[u].tmpl
              /\ hist[j].newId \in DOMAIN store
         /\ ~Has(hist[u].scan, "insertFail", hist[u].tmpl)
  /\ \A s \in ScanIds :
       scans[s].pc = "update" => Has(s, "insertOk", Current(s).id)
  /\ \A s \in ScanIds : \A t \in DOMAIN scans[s].pre :
       Has(s, "queryOk", 0) /\ Latest(s)
       /\ store[t].next_invoice_date # scans[s].pre[t].next_invoice_date
         => OccurrencesOf(s, t) # {}

(* In one scan the insert for one template failed and its next date is the *)
(* old one; the other template got its occurrence and then its update.     *)
C22_Witness ==
  \E s \in ScanIds : \E a, b \in Listed(s) :
    /\ Done(s) /\ Latest(s)
    /\ Has(s, "insertFail", a)
    /\ ~Has(s, "updateOk", a) /\ ~Has(s, "updateFail", a)
    /\ store[a].next_invoice_date = scans[s].pre[a].next_invoice_date
    /\ Has(s, "insertOk", b) /\ Has(s, "updateOk", b)
    /\ store[b].next_invoice_date # scans[s].pre[b].next_invoice_date

(* C23: after a scan whose query, inserts and updates all succeeded, no    *)
(* row of the store, template or occurrence, is recurring with a           *)
(* next_invoice_date on or before the scan's today; the next scan, reading *)
(* the same date, gets an empty list and inserts nothing.                  *)
C23_NothingDueAfterScan ==
  \A s \in ScanIds : AllCallsSucceeded(s) /\ Has(s, "queryOk", 0) =>
    /\ Latest(s) =>
         /\ \A id \in DOMAIN store : ~DueOn(store[id], scans[s].today)
         /\ SelectDue(store, scans[s].today) = <<>>
    /\ s + 1 \in ScanIds /\ Has(s + 1, "queryOk", 0)
       /\ scans[s + 1].today = scans[s].today =>
         /\ scans[s + 1].list = <<>>
         /\ \A k \in DOMAIN hist :
              hist[k].scan = s + 1 => hist[k].kind = "queryOk"

(* A scan inserted two occurrences; the next one, on the same day, found   *)
(* nothing due among the four rows.                                        *)
C23_Witness ==
  \E s \in ScanIds :
    /\ s + 1 \in ScanIds
    /\ AllCallsSucceeded(s) /\ Has(s, "queryOk", 0)
    /\ Len(scans[s].list) = 2
    /\ Has(s + 1, "queryOk", 0) /\ Done(s + 1)
    /\ scans[s + 1].today = scans[s].today
    /\ Len(store) = 4
    /\ \A id \in DOMAIN store : store[id].is_recurring = TRUE

(* C24: when the insert succeeds and the update fails, the occurrence      *)
(* stays in the store and the template keeps its old next_invoice_date;    *)
(* the next scan on the same day lists the template again and its insert   *)
(* adds a second occurrence with the same issue_date.                      *)
C24_FailedUpdateDuplicates ==
  \A s \in ScanIds : \A t \in Listed(s) : Has(s, "updateFail", t) =>
    /\ Cardinality(OccurrencesOf(s, t)) = 1
    /\ \A o \in OccurrencesOf(s, t) :
         /\ o \in DOMAIN store
         /\ store[o].issue_date = scans[s].today
    /\ Latest(s) =>
         /\ store[t] = scans[s].pre[t]
         /\ DueOn(store[t], scans[s].today)
    /\ s + 1 \in ScanIds /\ Has(s + 1, "queryOk", 0)
       /\ scans[s + 1].today = scans[s].today =>
         /\ t \in Listed(s + 1)
         /\ Has(s + 1, "insertOk", t) =>
              \A a \in OccurrencesOf(s, t), b \in OccurrencesOf(s + 1, t) :
                /\ a # b
                /\ b \in DOMAIN store
                /\ store[a].issue_date = store[b].issue_date

(* The update failed in one scan and the next scan, on the same day, has   *)
(* inserted the second occurrence.                                         *)
C24_Witness ==
  \E s \in ScanIds : \E t \in Listed(s) :
    /\ s + 1 \in ScanIds
    /\ Has(s, "updateFail", t)
    /\ scans[s + 1].today = scans[s].today
    /\ Has(s + 1, "insertOk", t) /\ Has(s + 1, "updateOk", t)
    /\ \E a \in OccurrencesOf(s, t), b \in OccurrencesOf(s + 1, t) :
         /\ a # b
         /\ store[a].issue_date = store[b].issue_date
         /\ store[a].due_date = store[b].due_date

(* The insertOk events for template t, over all scans. *)
InsertsFor(t) ==
  {k \in DOMAIN hist : hist[k].kind = "insertOk" /\ hist[k].tmpl = t}

(* C25: a scan inserts at most one occurrence for a template it selected,  *)
(* dated the scan's today, however long the template has been overdue; its *)
(* next_invoice_date then lies after today, and over all scans a template  *)
(* has no more occurrences than scans that selected it, none of them dated *)
(* on a missed period.                                                     *)
C25_OneOccurrencePerScan ==
  /\ \A s \in ScanIds :
       /\ Len(scans[s].list) = Cardinality(Listed(s))
       /\ \A t \in Listed(s) :
            /\ Cardinality(OccurrencesOf(s, t)) <= 1
            /\ Done(s) => Cardinality(OccurrencesOf(s, t)) = 1
            /\ \A o \in OccurrencesOf(s, t) :
                 store[o].issue_date = scans[s].today
            /\ Has(s, "updateOk", t) =>
                 DayNumber(store[t].next_invoice_date) > DayNumber(scans[s].today)
  /\ \A t \in DOMAIN store :
       Cardinality(InsertsFor(t))
         <= Cardinality({s \in ScanIds : t \in Listed(s)})
  /\ \A o \in InsertedRows :
       \E s \in ScanIds : store[o].issue_date = scans[s].today

(* The weekly invoice due since 1 February is scanned on 29 February, four *)
(* periods late: one occurrence, dated 29 February, and the next date is   *)
(* 7 March.                                                                *)
C25_Witness ==
  \E s \in ScanIds : \E t \in Listed(s) :
    /\ Done(s) /\ Latest(s)
    /\ scans[s].pre[t].recurring_interval = "weekly"
    /\ scans[s].pre[t].next_invoice_date = 20240201
    /\ scans[s].today = 20240229
    /\ Len(store) = 2
    /\ store[2].issue_date = 20240229
    /\ store[t].next_invoice_date = 20240307

(* Row t was last saved by the form as not recurring, at step k of the     *)
(* history.                                                                *)
TurnedOffAt(t, k) ==
  /\ k \in DOMAIN hist
  /\ hist[k].kind = "saveOk" /\ hist[k].tmpl = t
  /\ \A j \in DOMAIN hist :
       j > k => ~(hist[j].kind = "saveOk" /\ hist[j].tmpl = t)
  /\ store[t].is_recurring = FALSE

(* C26: once an invoice has been saved with is_recurring = false, it holds *)
(* no interval and no next date and no scan inserts an occurrence for it,  *)
(* until it is saved as recurring again.                                   *)
C26_TurnedOffStopsGeneration ==
  \A t \in DOMAIN store : \A k \in DOMAIN hist :
    TurnedOffAt(t, k) =>
      /\ store[t].next_invoice_date = NoDate
      /\ store[t].recurring_interval = NullInterval
      /\ \A j \in DOMAIN hist :
           j > k => ~(hist[j].kind = "insertOk" /\ hist[j].tmpl = t)

(* C28: generateNextDueDate keeps the order of the two dates.  When the    *)
(* previous due date is on or after the previous issue date the result is  *)
(* on or after the new issue date; when it is before, the result is before *)
(* the new issue date by the same number of days.                          *)
C28_DueOrderPreserved ==
  call.fn = "generateNextDueDate" =>
    LET issueDate == call.args[1]
        previousDueDate == call.args[2]
        previousIssueDate == call.args[3]
    IN  /\ previousDueDate >= previousIssueDate => call.result >= issueDate
        /\ previousDueDate < previousIssueDate =>
             /\ call.result < issueDate
             /\ DayNumber(issueDate) - DayNumber(call.result)
                  = DayNumber(previousIssueDate) - DayNumber(previousDueDate)
        /\ previousDueDate = previousIssueDate => call.result = issueDate

(* A term of two days before the issue date, over the start of daylight    *)
(* saving: issued on 2 November, due on 31 October.                        *)
C28_Witness ==
  /\ tz = "dst"
  /\ call.fn = "generateNextDueDate"
  /\ call.args = <<20241102, 20240330, 20240401>>
  /\ call.result = 20241031

(* The store calls of scan s of the given kinds that have returned. *)
CallsOf(s, kinds) ==
  {k \in DOMAIN hist : hist[k].scan = s /\ hist[k].kind \in kinds}

(* One query for a scan; one insert at most and one update at most for a   *)
(* row of its list, none for any other row; no row the scan inserted is in *)
(* its list; the loop is within the list.                                  *)
OnePassOverList(s) ==
  /\ Cardinality(CallsOf(s, {"queryOk", "queryFail"})) <= 1
  /\ \A k \in CallsOf(s, {"insertOk", "insertFail", "updateOk", "updateFail"}) :
       hist[k].tmpl \in Listed(s)
  /\ \A t \in Listed(s) :
       /\ Cardinality({k \in CallsOf(s, {"insertOk", "insertFail"}) :
                         hist[k].tmpl = t}) <= 1
       /\ Cardinality({k \in CallsOf(s, {"updateOk", "updateFail"}) :
                         hist[k].tmpl = t}) <= 1
       /\ OccurrencesOf(s, t) \cap Listed(s) = {}
       /\ t \in DOMAIN scans[s].pre
  /\ scans[s].i <= Len(scans[s].list) + 1
  /\ Cardinality(CallsOf(s, {"insertOk", "insertFail"})) <= Len(scans[s].list)

(* C29: every scan that has started comes to its end when each store call  *)
(* returns, after one pass over the list of its one query: at most one     *)
(* insert and one update for each listed row, and no row it inserted is    *)
(* processed by it.                                                        *)
C29_ScanTerminates ==
  /\ [](\A s \in ScanIds : OnePassOverList(s))
  /\ \A s \in ScanIds : (scans[s].pc # "idle") ~> Done(s)

(* A scan is over: it inserted the occurrence, the update failed, and the  *)
(* occurrence was not in its list.                                         *)
C29_Witness ==
  \E s \in ScanIds :
    /\ Done(s)
    /\ Has(s, "insertOk", 1) /\ Has(s, "updateFail", 1)
    /\ Len(store) = 2
    /\ Listed(s) = {1}
    /\ OccurrencesOf(s, 1) = {2}

====
